---- MODULE Spec2Model ----
(***************************************************************************)
(* hp: heap-profile call graph (src/hp.go).                                *)
(*                                                                         *)
(* main starts two goroutines (profile load, symbol load), joins them over *)
(* two unbuffered channels, then runs CleanupStacks, graph.Analyze and     *)
(* state.GraphViz in sequence.  Stats is modelled by its InuseBytes field, *)
(* a *Node by the address that keys it in graph.nodes (one node per        *)
(* address), and GraphViz's output by its edge lines and node lines.       *)
(***************************************************************************)
EXTENDS Integers, Sequences, FiniteSets, TLC

(* ---------------------------- bounds ---------------------------------- *)
MaxStacks == 2      \* stacks in a loaded profile
MaxFrames == 4      \* frames of a loaded profile, over all its stacks
MaxKeep   == 2      \* largest params.NodeKeepCount tried

Addr  == {0, 1, 2}                  \* uint64 addresses met in the profiles
Names == {"f"}                      \* symbol names of the symbol tables
NoSym == "nil"                      \* syms.Lookup(addr) == nil
NoName == ""                        \* names[addr] of an address not in the map

KiB        == 1024                  \* size/1024
MinEdgeKiB == 30                    \* size/1024 < 30
Costs == {1, MinEdgeKiB * KiB}      \* Stats.InuseBytes of a loaded stack

(* ---------------------------- maps ------------------------------------ *)
EmptyMap == << >>

MapPut(m, k, v) == [x \in (DOMAIN m) \cup {k} |-> IF x = k THEN v ELSE m[x]]

MapGet(m, k, zero) == IF k \in DOMAIN m THEN m[k] ELSE zero

(* ---------------------------- inputs ---------------------------------- *)
RECURSIVE Profiles(_, _)
Profiles(n, f) ==
    IF n = 0 THEN {<< >>}
    ELSE UNION { UNION { UNION { { <<[Stack |-> s, Stats |-> c]>> \o rest :
                                     rest \in Profiles(n - 1, f - l) } :
                                 c \in Costs } :
                         s \in [1..l -> Addr] } :
                 l \in 0..f }

ScenarioStacks(a, b, c) ==
    << [Stack |-> <<a, b>>, Stats |-> 100],
       [Stack |-> <<a, b>>, Stats |-> 50],
       [Stack |-> <<a, c>>, Stats |-> 10] >>

ScenarioProfiles ==
    { ScenarioStacks(a, b, c) : <<a, b, c>> \in
        { t \in Addr \X Addr \X Addr : t[1] # t[2] /\ t[1] # t[3] /\ t[2] # t[3] } }

LoadableProfiles ==
    (UNION { Profiles(n, MaxFrames) : n \in 0..MaxStacks }) \cup ScenarioProfiles

SymTables == [Addr -> Names \cup {NoSym}]

Lookup(sy, addr) == sy[addr]

(* ---------------------------- CleanupStacks --------------------------- *)
ZeroAddr == 0       \* var last uint64

RECURSIVE CleanupFrames(_, _, _, _, _, _)
CleanupFrames(frames, sy, addrs, names, last, newstack) ==
    IF frames = << >>
    THEN [addrs |-> addrs, names |-> names, newstack |-> newstack]
    ELSE LET raw    == Head(frames)
             sym    == Lookup(sy, raw)
             known  == sym # NoSym /\ sym \in DOMAIN addrs
             addr   == IF known THEN addrs[sym] ELSE raw
             addrs1 == IF sym # NoSym /\ ~known THEN MapPut(addrs, sym, raw) ELSE addrs
             names1 == IF sym # NoSym THEN MapPut(names, addr, sym) ELSE names
         IN  IF addr = last
             THEN CleanupFrames(Tail(frames), sy, addrs1, names1, last, newstack)
             ELSE CleanupFrames(Tail(frames), sy, addrs1, names1, addr,
                                Append(newstack, addr))

RECURSIVE CleanupLoop(_, _, _, _, _)
CleanupLoop(todo, sy, addrs, names, done) ==
    IF todo = << >>
    THEN [stacks |-> done, names |-> names]
    ELSE LET r == CleanupFrames(Head(todo).Stack, sy, addrs, names, ZeroAddr, << >>)
         IN  CleanupLoop(Tail(todo), sy, r.addrs, r.names,
                         Append(done, [Stack |-> r.newstack, Stats |-> Head(todo).Stats]))

CleanupStacks(st, sy) == CleanupLoop(st, sy, EmptyMap, EmptyMap, << >>)

(* ---------------------------- graph.Analyze --------------------------- *)
NilNode == << >>

NewNode(addr, names) == [name |-> MapGet(names, addr, NoName), cur |-> 0, cum |-> 0]

\* node.cum.Add where node.cur.Add is meant
AddCurIntoCum(nodes, addr, stats) == [nodes EXCEPT ![addr].cum = @ + stats]

AddCur(nodes, addr, stats) == [nodes EXCEPT ![addr].cur = @ + stats]

AddCum(nodes, addr, stats) == [nodes EXCEPT ![addr].cum = @ + stats]

\* edge{last, node} where edge{node, last} is meant
AddEdgeReversed(edges, node, last, stats) ==
    MapPut(edges, <<last, node>>, MapGet(edges, <<last, node>>, 0) + stats)

AddEdge(edges, node, last, stats) ==
    MapPut(edges, <<node, last>>, MapGet(edges, <<node, last>>, 0) + stats)

RECURSIVE AnalyzeFrames(_, _, _, _, _)
AnalyzeFrames(frames, stats, names, g, last) ==
    IF frames = << >> THEN g
    ELSE LET addr == Head(frames) IN
         IF last # NilNode /\ addr = last[1]
         THEN AnalyzeFrames(Tail(frames), stats, names, g, last)
         ELSE LET nodes1 == IF addr \in DOMAIN g.nodes THEN g.nodes
                            ELSE MapPut(g.nodes, addr, NewNode(addr, names))
                  nodes2 == IF last = NilNode THEN AddCur(nodes1, addr, stats)
                            ELSE nodes1
                  edges1 == IF last = NilNode THEN g.edges
                            ELSE AddEdge(g.edges, addr, last[1], stats)
                  nodes3 == AddCum(nodes2, addr, stats)
              IN  AnalyzeFrames(Tail(frames), stats, names,
                                [nodes |-> nodes3, edges |-> edges1], <<addr>>)

RECURSIVE AnalyzeLoop(_, _, _)
AnalyzeLoop(todo, names, g) ==
    IF todo = << >> THEN g
    ELSE AnalyzeLoop(Tail(todo), names,
                     AnalyzeFrames(Head(todo).Stack, Head(todo).Stats, names, g, NilNode))

RECURSIVE SortedDesc(_, _)
SortedDesc(nodes, S) ==
    IF S = {} THEN << >>
    ELSE LET a == CHOOSE x \in S : \A y \in S : nodes[x].cum >= nodes[y].cum
         IN  <<nodes[a].cum>> \o SortedDesc(nodes, S \ {a})

CollectNodeSizes(nodes) == SortedDesc(nodes, {a \in DOMAIN nodes : nodes[a].cum > 0})

Analyze(st, names) ==
    LET g == AnalyzeLoop(st, names, [nodes |-> EmptyMap, edges |-> EmptyMap])
    IN  [nodes |-> g.nodes, edges |-> g.edges, NodeSizes |-> CollectNodeSizes(g.nodes)]

(* ---------------------------- state.GraphViz -------------------------- *)
NodeSizeThreshold(sizes, keep) == IF keep < Len(sizes) THEN sizes[keep + 1] ELSE 0

KeptNodes(nodes, threshold) == {a \in DOMAIN nodes : nodes[a].cum >= threshold}

KeptEdges(edges, kept) == {e \in DOMAIN edges : e[1] \in kept /\ e[2] \in kept}

\* Sort(edgelist, key): ascending in key(e) = -g.edges[e]; the order of equal
\* keys and the map iteration order that fills edgelist are left open.
SortedEdgeLists(edges, E) ==
    { l \in [1..Cardinality(E) -> E] :
        /\ \A i, j \in DOMAIN l : i # j => l[i] # l[j]
        /\ \A i, j \in DOMAIN l : i < j => -edges[l[i]] <= -edges[l[j]] }

\* the weight floor applied to every edge, the first into its destination too
DropEdgeNoFirst(indegree, dst, size) == size \div KiB < MinEdgeKiB

DropEdge(indegree, dst, size) ==
    IF MapGet(indegree, dst, 0) = 0 THEN FALSE
    ELSE size \div KiB < MinEdgeKiB

RECURSIVE EmitEdges(_, _, _, _, _)
EmitEdges(list, edges, indegree, outdegree, lines) ==
    IF list = << >>
    THEN [indegree |-> indegree, outdegree |-> outdegree, lines |-> lines]
    ELSE LET e    == Head(list)
             size == edges[e]
         IN  IF DropEdge(indegree, e[2], size)
             THEN EmitEdges(Tail(list), edges, indegree, outdegree, lines)
             ELSE EmitEdges(Tail(list), edges,
                            MapPut(indegree, e[2], MapGet(indegree, e[2], 0) + 1),
                            MapPut(outdegree, e[1], MapGet(outdegree, e[1], 0) + 1),
                            Append(lines, [src |-> e[1], dst |-> e[2],
                                           label |-> edges[e] \div KiB]))

\* only the in-degree looked at
HasNodeLineInOnly(indegree, outdegree, n) == ~(MapGet(indegree, n, 0) = 0)

HasNodeLine(indegree, outdegree, n) ==
    ~(MapGet(indegree, n, 0) = 0 /\ MapGet(outdegree, n, 0) = 0)

EmitNodes(kept, indegree, outdegree) ==
    {n \in kept : HasNodeLine(indegree, outdegree, n)}

(* ---------------------------- state ----------------------------------- *)
VARIABLES
    pcProf,         \* profile goroutine: "load", "send", "done"
    pcSym,          \* symbol goroutine:  "load", "send", "done"
    pcMain,         \* main: "recvSym", "recvProf", "cleanup", "analyze", "render", "done"
    parsed,         \* stacks as ParseHeap returned them (profile goroutine's local)
    loadedSyms,     \* symbol goroutine's local syms
    syms,           \* main's syms
    stacks,         \* state.Profile.stacks as main holds them
    names,          \* main's names
    nodes,          \* state.Graph.nodes
    edges,          \* state.Graph.edges
    NodeSizes,      \* state.Graph.NodeSizes
    NodeKeepCount,  \* state.Params.NodeKeepCount
    keptNodes,      \* GraphViz: keptNodes
    edgelist,       \* GraphViz: the sorted edgelist
    edgeLines,      \* GraphViz: emitted "src -> dst" lines, in order
    nodeLines       \* GraphViz: addresses of the emitted node lines

vars == <<pcProf, pcSym, pcMain, parsed, loadedSyms, syms, stacks, names, nodes,
          edges, NodeSizes, NodeKeepCount, keptNodes, edgelist, edgeLines, nodeLines>>

NoSyms == [a \in Addr |-> NoSym]

Init ==
    /\ pcProf = "load"
    /\ pcSym = "load"
    /\ pcMain = "recvSym"
    /\ parsed = << >>
    /\ loadedSyms = NoSyms
    /\ syms = NoSyms
    /\ stacks = << >>
    /\ names = EmptyMap
    /\ nodes = EmptyMap
    /\ edges = EmptyMap
    /\ NodeSizes = << >>
    /\ NodeKeepCount = 0
    /\ keptNodes = {}
    /\ edgelist = << >>
    /\ edgeLines = << >>
    /\ nodeLines = {}

\* go func() { ...; profile := ParseHeap(...); ... profChan <- profile }
ProfLoad ==
    /\ pcProf = "load"
    /\ \E p \in LoadableProfiles : parsed' = p
    /\ pcProf' = "send"
    /\ UNCHANGED <<pcSym, pcMain, loadedSyms, syms, stacks, names, nodes, edges,
                   NodeSizes, NodeKeepCount, keptNodes, edgelist, edgeLines, nodeLines>>

\* go func() { ...; syms := LoadSyms(binaryPath) / LoadSymsMap(symsPath); symChan <- syms }
SymLoad ==
    /\ pcSym = "load"
    /\ \E s \in SymTables : loadedSyms' = s
    /\ pcSym' = "send"
    /\ UNCHANGED <<pcProf, pcMain, parsed, syms, stacks, names, nodes, edges,
                   NodeSizes, NodeKeepCount, keptNodes, edgelist, edgeLines, nodeLines>>

\* syms := <-symChan, with the matching symChan <- syms (unbuffered channel)
RecvSym ==
    /\ pcMain = "recvSym"
    /\ pcSym = "send"
    /\ syms' = loadedSyms
    /\ pcSym' = "done"
    /\ pcMain' = "recvProf"
    /\ UNCHANGED <<pcProf, parsed, loadedSyms, stacks, names, nodes, edges,
                   NodeSizes, NodeKeepCount, keptNodes, edgelist, edgeLines, nodeLines>>

\* main going on without the profile goroutine's send
RecvProfNoWait ==
    /\ pcMain = "recvProf"
    /\ stacks' = parsed
    /\ pcMain' = "cleanup"
    /\ UNCHANGED <<pcProf, pcSym, parsed, loadedSyms, syms, names, nodes, edges,
                   NodeSizes, NodeKeepCount, keptNodes, edgelist, edgeLines, nodeLines>>

\* profile := <-profChan, with the matching profChan <- profile
RecvProf ==
    /\ pcMain = "recvProf"
    /\ pcProf = "send"
    /\ stacks' = parsed
    /\ pcProf' = "done"
    /\ pcMain' = "cleanup"
    /\ UNCHANGED <<pcSym, parsed, loadedSyms, syms, names, nodes, edges,
                   NodeSizes, NodeKeepCount, keptNodes, edgelist, edgeLines, nodeLines>>

\* names = CleanupStacks(state.Profile.stacks, syms)
DoCleanup ==
    /\ pcMain = "cleanup"
    /\ LET r == CleanupStacks(stacks, syms) IN
         /\ stacks' = r.stacks
         /\ names' = r.names
    /\ pcMain' = "analyze"
    /\ UNCHANGED <<pcProf, pcSym, parsed, loadedSyms, syms, nodes, edges,
                   NodeSizes, NodeKeepCount, keptNodes, edgelist, edgeLines, nodeLines>>

\* state.Graph = &graph{...}; state.Graph.Analyze(profile.stacks, names)
DoAnalyze ==
    /\ pcMain = "analyze"
    /\ LET g == Analyze(stacks, names) IN
         /\ nodes' = g.nodes
         /\ edges' = g.edges
         /\ NodeSizes' = g.NodeSizes
    /\ pcMain' = "render"
    /\ UNCHANGED <<pcProf, pcSym, parsed, loadedSyms, syms, stacks, names,
                   NodeKeepCount, keptNodes, edgelist, edgeLines, nodeLines>>

\* state.Params = &params{NodeKeepCount: ...}; state.GraphViz(os.Stdout).
\* main sets the count to 100; the step draws it from 0..MaxKeep, so that the
\* threshold index falls inside, at the end of and beyond NodeSizes.
DoGraphViz ==
    /\ pcMain = "render"
    /\ \E keep \in 0..MaxKeep :
         LET threshold == NodeSizeThreshold(NodeSizes, keep)
             kept      == KeptNodes(nodes, threshold)
         IN  \E l \in SortedEdgeLists(edges, KeptEdges(edges, kept)) :
               LET r == EmitEdges(l, edges, EmptyMap, EmptyMap, << >>) IN
                 /\ NodeKeepCount' = keep
                 /\ keptNodes' = kept
                 /\ edgelist' = l
                 /\ edgeLines' = r.lines
                 /\ nodeLines' = EmitNodes(kept, r.indegree, r.outdegree)
    /\ pcMain' = "done"
    /\ UNCHANGED <<pcProf, pcSym, parsed, loadedSyms, syms, stacks, names, nodes,
                   edges, NodeSizes>>

Next ==
    \/ ProfLoad
    \/ SymLoad
    \/ RecvSym
    \/ RecvProf
    \/ DoCleanup
    \/ DoAnalyze
    \/ DoGraphViz

Spec == Init /\ [][Next]_vars

(* ---------------------------- properties ------------------------------ *)
Cleaned  == pcMain \in {"analyze", "render", "done"}
Analyzed == pcMain \in {"render", "done"}
Rendered == pcMain = "done"

RECURSIVE SumStats(_)
SumStats(st) == IF st = << >> THEN 0 ELSE Head(st).Stats + SumStats(Tail(st))

RECURSIVE SumStatsNonEmpty(_)
SumStatsNonEmpty(st) ==
    IF st = << >> THEN 0
    ELSE (IF Head(st).Stack = << >> THEN 0 ELSE Head(st).Stats) + SumStatsNonEmpty(Tail(st))

RECURSIVE SumCur(_)
SumCur(S) ==
    IF S = {} THEN 0
    ELSE LET a == CHOOSE x \in S : TRUE IN nodes[a].cur + SumCur(S \ {a})

Contains(seq, a) == \E i \in DOMAIN seq : seq[i] = a

RECURSIVE SumStatsContaining(_, _)
SumStatsContaining(st, a) ==
    IF st = << >> THEN 0
    ELSE (IF Contains(Head(st).Stack, a) THEN Head(st).Stats ELSE 0)
         + SumStatsContaining(Tail(st), a)

CumOf(a) == IF a \in DOMAIN nodes THEN nodes[a].cum ELSE 0

\* C1 (as stated): after Analyze every node has cum >= cur, and the cur of all
\* nodes adds up to the Stats.InuseBytes of all the stacks, empty ones included.
C1_CostConservation ==
    Analyzed =>
        /\ \A a \in DOMAIN nodes : nodes[a].cum >= nodes[a].cur
        /\ SumCur(DOMAIN nodes) = SumStats(stacks)

\* C1 (amended): after Analyze every node has cum >= cur, and the cur of all
\* nodes adds up to the Stats.InuseBytes of the stacks that have a frame when
\* Analyze walks them; a stack without frames adds its cost to no node.
C1_CostConservationNonEmpty ==
    Analyzed =>
        /\ \A a \in DOMAIN nodes : nodes[a].cum >= nodes[a].cur
        /\ SumCur(DOMAIN nodes) = SumStatsNonEmpty(stacks)

C1_Witness ==
    /\ Analyzed
    /\ \E i \in DOMAIN stacks : stacks[i].Stack = << >>
    /\ \E i \in DOMAIN stacks : Len(stacks[i].Stack) = 3
                                /\ stacks[i].Stack[1] = stacks[i].Stack[3]
    /\ \E a \in DOMAIN nodes : nodes[a].cur > 0 /\ nodes[a].cum > nodes[a].cur

Distinct3 == { t \in Addr \X Addr \X Addr : t[1] # t[2] /\ t[1] # t[3] /\ t[2] # t[3] }

\* C2 (as stated): the stacks [A,B]/100, [A,B]/50, [A,C]/10 give the nodes
\* A(cur 0, cum 160), B(cur 150, cum 150), C(cur 10, cum 10) and the two edges
\* B->A = 150, C->A = 10.
C2_ScenarioAsStated ==
    \A t \in Distinct3 :
        (Analyzed /\ stacks = ScenarioStacks(t[1], t[2], t[3])) =>
            /\ DOMAIN nodes = {t[1], t[2], t[3]}
            /\ nodes[t[1]].cur = 0   /\ nodes[t[1]].cum = 160
            /\ nodes[t[2]].cur = 150 /\ nodes[t[2]].cum = 150
            /\ nodes[t[3]].cur = 10  /\ nodes[t[3]].cum = 10
            /\ DOMAIN edges = {<<t[2], t[1]>>, <<t[3], t[1]>>}
            /\ edges[<<t[2], t[1]>>] = 150
            /\ edges[<<t[3], t[1]>>] = 10

\* C2 (amended): the same three stacks give the nodes A(cur 160, cum 160),
\* B(cur 0, cum 150), C(cur 0, cum 10) and the two edges B->A = 150, C->A = 10:
\* the exclusive cost goes to the first frame of each stack.
C2_ScenarioFirstFrame ==
    \A t \in Distinct3 :
        (Analyzed /\ stacks = ScenarioStacks(t[1], t[2], t[3])) =>
            /\ DOMAIN nodes = {t[1], t[2], t[3]}
            /\ nodes[t[1]].cur = 160 /\ nodes[t[1]].cum = 160
            /\ nodes[t[2]].cur = 0   /\ nodes[t[2]].cum = 150
            /\ nodes[t[3]].cur = 0   /\ nodes[t[3]].cum = 10
            /\ DOMAIN edges = {<<t[2], t[1]>>, <<t[3], t[1]>>}
            /\ edges[<<t[2], t[1]>>] = 150
            /\ edges[<<t[3], t[1]>>] = 10

C2_Witness ==
    /\ Analyzed
    /\ \E t \in Distinct3 : stacks = ScenarioStacks(t[1], t[2], t[3])
    /\ Cardinality(DOMAIN nodes) = 3
    /\ Cardinality(DOMAIN edges) = 2

\* C10 (as stated): after Analyze the cum of every address is the sum of the
\* Stats.InuseBytes of the stacks that contain it, each stack counted once, and
\* so no cum exceeds the sum over all stacks.
C10_CumOncePerStack ==
    Analyzed =>
        \A a \in Addr :
            /\ CumOf(a) = SumStatsContaining(stacks, a)
            /\ CumOf(a) <= SumStats(stacks)

RECURSIVE Flatten(_)
Flatten(st) == IF st = << >> THEN << >> ELSE Head(st).Stack \o Flatten(Tail(st))

\* The addresses of the loaded profile that resolve to name, in processing order.
Occurrences(name) == SelectSeq(Flatten(parsed), LAMBDA a : syms[a] = name)

Representative(name) == Head(Occurrences(name))

\* C3 (as stated): two distinct addresses of one symbol name are both replaced,
\* in every stack, by the address of that name met first in processing order,
\* and the graph holds exactly one node of that name.
C3_SymbolCollapsing ==
    Analyzed =>
        \A A, B \in Addr :
            (A # B /\ syms[A] # NoSym /\ syms[A] = syms[B]
                   /\ (Contains(Flatten(parsed), A) \/ Contains(Flatten(parsed), B))) =>
                /\ \A i \in DOMAIN stacks : \A j \in DOMAIN stacks[i].Stack :
                       syms[stacks[i].Stack[j]] = syms[A]
                           => stacks[i].Stack[j] = Representative(syms[A])
                /\ Cardinality({a \in DOMAIN nodes : nodes[a].name = syms[A]}) = 1

Canonical(a) == IF syms[a] = NoSym THEN a ELSE Representative(syms[a])

\* The maximal runs of address a in the stack, after canonicalization.
Runs(stack, a) ==
    Cardinality({ i \in DOMAIN stack :
                    /\ Canonical(stack[i]) = a
                    /\ (i = 1 \/ Canonical(stack[i - 1]) # a) })

RECURSIVE SumStatsRuns(_, _)
SumStatsRuns(st, a) ==
    IF st = << >> THEN 0
    ELSE Head(st).Stats * Runs(Head(st).Stack, a) + SumStatsRuns(Tail(st), a)

\* C4 (as stated): the edge table holds no edge from a node to itself, and every
\* run of consecutive equal canonical addresses of a loaded stack adds the
\* stack's cost to that node's cum exactly once.
C4_NoSelfLoopRunOnce ==
    Analyzed =>
        /\ \A e \in DOMAIN edges : e[1] # e[2]
        /\ \A a \in Addr : CumOf(a) = SumStatsRuns(parsed, a)

\* C7 (as stated): CleanupStacks run again on the stacks it produced leaves
\* every address sequence as it is and returns the same address-to-name map.
C7_CleanupIdempotent ==
    Cleaned => CleanupStacks(stacks, syms) = [stacks |-> stacks, names |-> names]

\* C6 (as stated): the kept nodes are those with cum >= the NodeKeepCount-th
\* largest entry of NodeSizes (0 when NodeSizes has fewer entries), and only
\* ties at that value make the kept set larger than NodeKeepCount.
C6_TopKThreshold ==
    (Rendered /\ NodeKeepCount >= 1) =>
        LET t == IF Len(NodeSizes) < NodeKeepCount THEN 0 ELSE NodeSizes[NodeKeepCount]
        IN  /\ keptNodes = {a \in DOMAIN nodes : nodes[a].cum >= t}
            /\ Cardinality(keptNodes) > NodeKeepCount =>
                   Cardinality({a \in keptNodes : nodes[a].cum > t}) < NodeKeepCount

EmittedEdge(e) == \E k \in DOMAIN edgeLines : edgeLines[k].src = e[1] /\ edgeLines[k].dst = e[2]

\* C5: a node line is emitted exactly for the nodes that passed the threshold
\* and are the src or dst of an emitted edge line; every endpoint of an emitted
\* edge has its node line.
C5_PruningConnectivity ==
    Rendered =>
        /\ nodeLines = { n \in keptNodes :
                           \E k \in DOMAIN edgeLines :
                               edgeLines[k].src = n \/ edgeLines[k].dst = n }
        /\ \A k \in DOMAIN edgeLines :
               edgeLines[k].src \in nodeLines /\ edgeLines[k].dst \in nodeLines

C5_Witness ==
    /\ Rendered
    /\ \E n \in keptNodes : n \notin nodeLines
    /\ \E n \in nodeLines : \A k \in DOMAIN edgeLines : edgeLines[k].dst # n
    /\ \E n \in nodeLines : \A k \in DOMAIN edgeLines : edgeLines[k].src # n

BetweenKept == {e \in DOMAIN edges : e[1] \in keptNodes /\ e[2] \in keptNodes}

\* C9: the edges between kept nodes are visited heaviest first; an edge is
\* emitted exactly when it is the first one visited into its destination or
\* weighs at least 30720 bytes; so every kept destination has an emitted inbound
\* edge, of the largest weight into it, and every edge of 30720 bytes or more
\* between kept nodes is emitted.
C9_EdgeSelection ==
    Rendered =>
        /\ {edgelist[i] : i \in DOMAIN edgelist} = BetweenKept
        /\ \A i, j \in DOMAIN edgelist : i < j => edges[edgelist[i]] >= edges[edgelist[j]]
        /\ \A i \in DOMAIN edgelist :
               EmittedEdge(edgelist[i]) <=>
                   \/ \A j \in 1..(i - 1) : edgelist[j][2] # edgelist[i][2]
                   \/ edges[edgelist[i]] >= 30720
        /\ \A e \in BetweenKept :
               \E d \in BetweenKept :
                   /\ d[2] = e[2] /\ EmittedEdge(d)
                   /\ \A x \in BetweenKept : x[2] = e[2] => edges[d] >= edges[x]
        /\ \A e \in BetweenKept : edges[e] >= 30720 => EmittedEdge(e)

C9_Witness ==
    /\ Rendered
    /\ \E i, j \in DOMAIN edgelist :
          /\ i < j
          /\ edgelist[i][2] = edgelist[j][2]
          /\ edges[edgelist[i]] < 30720
          /\ EmittedEdge(edgelist[i])
          /\ ~EmittedEdge(edgelist[j])

Joined == pcMain \notin {"recvSym", "recvProf"}

\* C8: main reaches CleanupStacks only after both goroutines have completed
\* their send and main holds what they loaded; before that, whichever load ends
\* first, some step of the join can be taken (no deadlock), and as every step
\* moves one of the three forward the join completes once the loads end.
C8_Join ==
    /\ Joined => /\ pcProf = "done" /\ pcSym = "done"
                 /\ syms = loadedSyms
                 /\ (pcMain = "cleanup" => stacks = parsed)
    /\ ~Joined => ENABLED (ProfLoad \/ SymLoad \/ RecvSym \/ RecvProf)

C8_Witness ==
    /\ pcMain = "cleanup"
    /\ pcProf = "done" /\ pcSym = "done"
    /\ stacks = parsed /\ stacks # << >>
    /\ \E a \in Addr : syms[a] # NoSym

====
